---- MODULE Spec2Model ----
(***************************************************************************)
(* The file-selection controller (the useFileHandler hook) of the foodies  *)
(* application, as a state machine.                                        *)
(*                                                                         *)
(* The hook keeps the React state `files` and `errors`.  Its callbacks     *)
(* (handleFiles, removeFile, getNewFiles) close over the `files` value of  *)
(* the last render; setFiles stores a new value that becomes `files` at    *)
(* the next render.  The effect on [files] registers a cleanup that        *)
(* revokes the previews of the list it was created for; React runs that    *)
(* cleanup when a render commits a new list and when the hook unmounts.    *)
(* The effect on [currentFiles] starts an async function whose             *)
(* continuation (after `await Promise.all`) adopts the supplied list.      *)
(***************************************************************************)
EXTENDS Integers, Sequences, FiniteSets, TLC

(***************************************************************************)
(* Bounds of the model.                                                    *)
(***************************************************************************)
\* longest batch of candidates handed to handleFiles
MaxBatch == 2
\* number of object URLs URL.createObjectURL may hand out in one run
MaxHandles == 2
\* initializeFiles calls that may be pending at once, under a parent that
\* renders again before their microtasks have run (AdoptionSpec)
MaxRace == 2
\* handleFiles and removeFile calls the user makes on a controlled hook
\* (ControlledSpec); what follows the last of them is the hook and its
\* parent alone
MaxOps == 2

(***************************************************************************)
(* Strings.  A string the code inspects is a sequence of characters, kept  *)
(* in the state by its text and looked up here.                            *)
(***************************************************************************)
Chars ==
  ("application"  :> <<"a","p","p","l","i","c","a","t","i","o","n">>) @@
  ("text"         :> <<"t","e","x","t">>) @@
  ("image"        :> <<"i","m","a","g","e">>) @@
  ("audio"        :> <<"a","u","d","i","o">>) @@
  ("video"        :> <<"v","i","d","e","o">>) @@
  ("image/"       :> <<"i","m","a","g","e","/">>) @@
  ("image/png"    :> <<"i","m","a","g","e","/","p","n","g">>) @@
  ("image/x-text" :> <<"i","m","a","g","e","/","x","-","t","e","x","t">>) @@
  ("text/plain"   :> <<"t","e","x","t","/","p","l","a","i","n">>) @@
  ("font/woff"    :> <<"f","o","n","t","/","w","o","f","f">>)

\* String.prototype.includes
includes(str, key) ==
  LET s == Chars[str]
      k == Chars[key]
  IN  \E i \in 1..(Len(s) - Len(k) + 1) : SubSeq(s, i, i + Len(k) - 1) = k

\* String.prototype.startsWith
startsWith(str, prefix) ==
  LET s == Chars[str]
      k == Chars[prefix]
  IN  Len(s) >= Len(k) /\ SubSeq(s, 1, Len(k)) = k

(***************************************************************************)
(* enum FileType                                                           *)
(***************************************************************************)
FileTypeAudio == "audio/*"
FileTypeImage == "image/*"
FileTypeText == "text/*"
FileTypeVideo == "video/*"
FileType == {FileTypeAudio, FileTypeImage, FileTypeText, FileTypeVideo}

\* the keys of typeMap in the order `for (const key in typeMap)` visits them
typeMapKeys == <<"application", "text", "image", "audio", "video">>

typeMap ==
  [key \in {"application", "text", "image", "audio", "video"} |->
     CASE key = "application" -> FileTypeText
       [] key = "text"        -> FileTypeText
       [] key = "image"       -> FileTypeImage
       [] key = "audio"       -> FileTypeAudio
       [] key = "video"       -> FileTypeVideo]

Min(S) == CHOOSE x \in S : \A y \in S : x <= y

\* mapType: the first key of typeMap the mime string includes decides
mapType(type) ==
  LET hits == {i \in 1..Len(typeMapKeys) : includes(type, typeMapKeys[i])}
  IN  IF hits = {} THEN FileTypeImage ELSE typeMap[typeMapKeys[Min(hits)]]

\* mapType of every string of the model, computed once
mapTypeOf == [type \in DOMAIN Chars |-> mapType(type)] @@ << >>

\* `type.startsWith('image/')` for every string of the model, computed once
startsWithImage == [type \in DOMAIN Chars |-> startsWith(type, "image/")] @@ << >>

(***************************************************************************)
(* Byte units.  A converted size is kept in tenths of the unit (15 is 1.5) *)
(***************************************************************************)
MiB == 1048576
GiB == 1073741824

\* getAppropriateUnit with `>` for `>=`
getAppropriateUnitAbove(bytes) == IF bytes > GiB THEN "GB" ELSE "MB"

getAppropriateUnit(bytes) == IF bytes >= GiB THEN "GB" ELSE "MB"

\* bytes / d is exact in a double (d is a power of two), so toFixed(1)
\* yields the integer n of tenths nearest to the exact quotient, the larger
\* one on a tie: n = floor((10 * bytes + d/2) / d).  With bytes = q*d + r
\* and r = r1 * 1024 + r0 this is
\*   10*q + floor((10*r1 + d/2048 + floor(10*r0 / 1024)) / (d / 1024)),
\* which stays inside 32-bit integers.
toFixed1Truncating(bytes, d) ==
  LET q  == bytes \div d
      r  == bytes % d
      r1 == r \div 1024
      r0 == r % 1024
  IN  10 * q + ((10 * r1 + ((10 * r0) \div 1024)) \div (d \div 1024))

toFixed1(bytes, d) ==
  LET q  == bytes \div d
      r  == bytes % d
      r1 == r \div 1024
      r0 == r % 1024
  IN  10 * q + ((10 * r1 + (d \div 2048) + ((10 * r0) \div 1024)) \div (d \div 1024))

bytesToUnit(bytes, unit) ==
  IF unit = "MB" THEN toFixed1(bytes, MiB) ELSE toFixed1(bytes, GiB)

(***************************************************************************)
(* Files.  A candidate is a File of the platform (name, size, type); an    *)
(* entry is a FileWithPreview: the File's fields plus preview and error.   *)
(***************************************************************************)
\* values of FileWithPreview.preview that are not object URLs: undefined
\* and the empty string.  Object URLs are the numbers 1, 2, ...
NoPreview == 0
EmptyPreview == -1

\* `if (file.preview)`: undefined and '' are falsy
hasPreview(file) == file.preview # NoPreview /\ file.preview # EmptyPreview

\* An error message, by the parts its template interpolates: the size
\* message has name, num (maxSize in tenths of the unit) and unit; the type
\* message has type; the max-files message has num (maxFiles).
NoError == [kind |-> "none", name |-> "", num |-> 0, unit |-> "", type |-> ""]
sizeError(name, tenths, unit) ==
  [kind |-> "size", name |-> name, num |-> tenths, unit |-> unit, type |-> ""]
typeError(type) ==
  [kind |-> "type", name |-> "", num |-> 0, unit |-> "", type |-> type]
maxFilesError(maxFiles) ==
  [kind |-> "maxFiles", name |-> "", num |-> maxFiles, unit |-> "", type |-> ""]
exceededError ==
  [kind |-> "exceeded", name |-> "", num |-> 0, unit |-> "", type |-> ""]

\* `{ ...file }`
FileWithPreview(file) ==
  [name |-> file.name, size |-> file.size, type |-> file.type,
   preview |-> NoPreview, error |-> NoError]

\* validateFile with the two checks in the other order
validateFileTypeFirst(file, maxSize, acceptedType) ==
  IF mapTypeOf[file.type] # acceptedType
  THEN typeError(file.type)
  ELSE IF file.size > maxSize
       THEN LET unit == getAppropriateUnit(maxSize)
            IN  sizeError(file.name, bytesToUnit(maxSize, unit), unit)
       ELSE NoError

\* validateFile: null (NoError) or the message of the first failed check
validateFile(file, maxSize, acceptedType) ==
  IF file.size > maxSize
  THEN LET unit == getAppropriateUnit(maxSize)
       IN  sizeError(file.name, bytesToUnit(maxSize, unit), unit)
  ELSE IF mapTypeOf[file.type] # acceptedType
       THEN typeError(file.type)
       ELSE NoError

\* one turn of the forEach of validateSelectedFiles: the entry of `file`
\* is pushed to rejectedFiles with its error, or to acceptedFiles, with the
\* object URL URL.createObjectURL returns if its type starts with image/
pushFile(acc, file, error) ==
  IF error # NoError
  THEN [acc EXCEPT
          !.rejectedFiles = Append(@, [FileWithPreview(file) EXCEPT !.error = error]),
          !.errorMessages = Append(@, error)]
  ELSE IF startsWithImage[file.type]
       THEN [acc EXCEPT
               !.acceptedFiles =
                  Append(@, [FileWithPreview(file) EXCEPT !.preview = acc.nextHandle]),
               !.nextHandle = @ + 1]
       ELSE [acc EXCEPT !.acceptedFiles = Append(@, FileWithPreview(file))]

RECURSIVE validateFrom(_, _, _, _, _)
validateFrom(selectedFiles, i, acc, maxSize, acceptedType) ==
  IF i > Len(selectedFiles)
  THEN acc
  ELSE validateFrom(selectedFiles, i + 1,
                    pushFile(acc, selectedFiles[i],
                             validateFile(selectedFiles[i], maxSize, acceptedType)),
                    maxSize, acceptedType)

\* validateSelectedFiles; handle is the next object URL of the platform
validateSelectedFiles(selectedFiles, maxSize, acceptedType, handle) ==
  validateFrom(selectedFiles, 1,
               [acceptedFiles |-> << >>, rejectedFiles |-> << >>,
                errorMessages |-> << >>, nextHandle |-> handle],
               maxSize, acceptedType)

\* revokePreviews: the URLs handed to URL.revokeObjectURL, in order
revokePreviews(fileList) ==
  LET withPreview == SelectSeq(fileList, hasPreview)
  IN  [i \in 1..Len(withPreview) |-> withPreview[i].preview]

\* Array.prototype.slice(0, n)
slice0(list, n) ==
  IF n <= 0 THEN << >> ELSE SubSeq(list, 1, IF n < Len(list) THEN n ELSE Len(list))

\* getNewFiles taking `numToAdd >= 0` for `numToAdd > 0`
getNewFilesRoomOffByOne(files, acceptedFiles, maxFiles) ==
  IF maxFiles = 1
  THEN [isNull |-> FALSE, newFiles |-> slice0(acceptedFiles, maxFiles),
        revoked |-> revokePreviews(files)]
  ELSE LET totalFiles == Len(files) + Len(acceptedFiles)
           numToAdd == maxFiles - Len(files)
       IN  IF totalFiles > maxFiles
           THEN IF numToAdd >= 0
                THEN [isNull |-> FALSE,
                      newFiles |-> files \o slice0(acceptedFiles, numToAdd),
                      revoked |-> << >>]
                ELSE [isNull |-> TRUE, newFiles |-> << >>, revoked |-> << >>]
           ELSE [isNull |-> FALSE, newFiles |-> files \o acceptedFiles,
                 revoked |-> << >>]

\* getNewFiles appending every accepted file when there is some room
getNewFilesNoSlice(files, acceptedFiles, maxFiles) ==
  IF maxFiles = 1
  THEN [isNull |-> FALSE, newFiles |-> slice0(acceptedFiles, maxFiles),
        revoked |-> revokePreviews(files)]
  ELSE LET totalFiles == Len(files) + Len(acceptedFiles)
           numToAdd == maxFiles - Len(files)
       IN  IF totalFiles > maxFiles
           THEN IF numToAdd > 0
                THEN [isNull |-> FALSE,
                      newFiles |-> files \o acceptedFiles,
                      revoked |-> << >>]
                ELSE [isNull |-> TRUE, newFiles |-> << >>, revoked |-> << >>]
           ELSE [isNull |-> FALSE, newFiles |-> files \o acceptedFiles,
                 revoked |-> << >>]

\* getNewFiles without the revokePreviews(files) of the maxFiles = 1 branch
getNewFilesKeepPreviews(files, acceptedFiles, maxFiles) ==
  IF maxFiles = 1
  THEN [isNull |-> FALSE, newFiles |-> slice0(acceptedFiles, maxFiles),
        revoked |-> << >>]
  ELSE LET totalFiles == Len(files) + Len(acceptedFiles)
           numToAdd == maxFiles - Len(files)
       IN  IF totalFiles > maxFiles
           THEN IF numToAdd > 0
                THEN [isNull |-> FALSE,
                      newFiles |-> files \o slice0(acceptedFiles, numToAdd),
                      revoked |-> << >>]
                ELSE [isNull |-> TRUE, newFiles |-> << >>, revoked |-> << >>]
           ELSE [isNull |-> FALSE, newFiles |-> files \o acceptedFiles,
                 revoked |-> << >>]

\* getNewFiles: the new list, or null; with the URLs it revokes on the way
getNewFiles(files, acceptedFiles, maxFiles) ==
  IF maxFiles = 1
  THEN [isNull |-> FALSE, newFiles |-> slice0(acceptedFiles, maxFiles),
        revoked |-> revokePreviews(files)]
  ELSE LET totalFiles == Len(files) + Len(acceptedFiles)
           numToAdd == maxFiles - Len(files)
       IN  IF totalFiles > maxFiles
           THEN IF numToAdd > 0
                THEN [isNull |-> FALSE,
                      newFiles |-> files \o slice0(acceptedFiles, numToAdd),
                      revoked |-> << >>]
                ELSE [isNull |-> TRUE, newFiles |-> << >>, revoked |-> << >>]
           ELSE [isNull |-> FALSE, newFiles |-> files \o acceptedFiles,
                 revoked |-> << >>]

\* files.filter taking the index as 1-based
filterIndexOneBased(files, index) ==
  LET keep == {i \in 1..Len(files) : i # index}
      pos(k) == CHOOSE i \in keep : Cardinality({j \in keep : j < i}) = k - 1
  IN  [k \in 1..Cardinality(keep) |-> files[pos(k)]]

\* files.filter((_, i) => i !== index), for the 0-based index of the code
filterIndex(files, index) ==
  LET keep == {i \in 1..Len(files) : i - 1 # index}
      pos(k) == CHOOSE i \in keep : Cardinality({j \in keep : j < i}) = k - 1
  IN  [k \in 1..Cardinality(keep) |-> files[pos(k)]]

\* initializeFiles: the list the currentFiles effect adopts
initializedFiles(list) ==
  [i \in 1..Len(list) |->
     IF hasPreview(list[i])
     THEN list[i]
     ELSE IF startsWithImage[list[i].type]
          THEN [list[i] EXCEPT !.preview = EmptyPreview]
          ELSE list[i]]

(***************************************************************************)
(* The inputs the model draws from.                                        *)
(***************************************************************************)
\* maxFiles ranges over 1..MaxMaxFiles
MaxMaxFiles == 2
\* the props of a run: images up to the default maxSize of FileInput
\* (5 MiB, which the unit rule prints in MB) with onFilesRejected, or texts
\* up to 1 GiB (printed in GB) with and without onFilesRejected
DefaultMaxSize == 5 * MiB
Configs ==
  [maxFiles : 1..MaxMaxFiles, maxSize : {DefaultMaxSize},
   acceptedType : {FileTypeImage}, hasRejected : {TRUE}]
  \cup
  [maxFiles : 1..MaxMaxFiles, maxSize : {GiB},
   acceptedType : {FileTypeText}, hasRejected : BOOLEAN]

File(name, size, type) == [name |-> name, size |-> size, type |-> type]

\* the candidates the platform may hand over: a small image and an image
\* above 1 GiB and, where texts are accepted, a small text
Candidates(acceptedType) ==
  { File("a.png", 1024, "image/png"),
    File("d.png", GiB + 1, "image/png") }
  \cup
  IF acceptedType = FileTypeText THEN { File("c.txt", 1024, "text/plain") } ELSE {}

Batches(acceptedType) == UNION {[1..n -> Candidates(acceptedType)] : n \in 1..MaxBatch}

\* lists a caller may supply as currentFiles: one image without preview,
\* and a list longer than any maxFiles whose first entry carries an error
\* (as the entries handed to onFilesRejected do)
CallerLists ==
  { << FileWithPreview(File("a.png", 1024, "image/png")) >>,
    [i \in 1..(MaxMaxFiles + 1) |->
       IF i = 1
       THEN [FileWithPreview(File("c.txt", 1024, "text/plain")) EXCEPT !.error = exceededError]
       ELSE FileWithPreview(File("c.txt", 1024, "text/plain"))] }

Undefined == [defined |-> FALSE, list |-> << >>]
Defined(list) == [defined |-> TRUE, list |-> list]

\* The microtask a call of initializeFiles leaves in the queue.  The async
\* mappers return settled promises, so Promise.all of a list with entries
\* settles in a microtask (the reaction to its last element) and the
\* continuation after `await` runs in a later one; Promise.all of an empty
\* list is settled at once and the continuation is queued directly.
initializeFilesJob(list) ==
  [list |-> list, stage |-> IF Len(list) = 0 THEN "continuation" ELSE "element"]

\* the currentFiles effect: nothing for undefined, else initializeFiles()
currentFilesEffect(queue, cf) ==
  IF cf.defined THEN Append(queue, initializeFilesJob(cf.list)) ELSE queue

\* run the microtasks at the head of the queue up to the first
\* continuation: an element reaction settles its Promise.all, which queues
\* the continuation of that call behind the microtasks already queued
RECURSIVE upToContinuation(_)
upToContinuation(queue) ==
  IF Head(queue).stage = "continuation"
  THEN queue
  ELSE upToContinuation(Append(Tail(queue), [Head(queue) EXCEPT !.stage = "continuation"]))

(***************************************************************************)
(* State.  The currentFiles prop is not state of the hook: the effect on   *)
(* [currentFiles] is its only reader, and the list it captured is in       *)
(* adoptQ.                                                                 *)
(***************************************************************************)
VARIABLES
  cfg,          \* the props maxFiles, maxSize, acceptedType; hasRejected: onFilesRejected is supplied
  files,        \* the `files` state as of the last render (what the callbacks close over)
  nextFiles,    \* the value of the last setFiles call
  dirty,        \* a setFiles call has not been rendered yet
  errors,       \* the `errors` state
  adoptQ,       \* the microtasks of the pending initializeFiles calls, in queue order
  alive,        \* the hook is mounted
  nextHandle,   \* the next object URL URL.createObjectURL returns
  revokedUrls,  \* the object URLs URL.revokeObjectURL was called with
  revokedAgain, \* those it was called with more than once
  last,         \* the last step: its operation, inputs, and calls made
  surface,      \* the props of the FileInput that uses the hook, if one does
  ui,           \* what the last event on that FileInput did
  supplied,     \* the currentFiles of the latest change, where AdoptionSpec follows them
  page,         \* the request MealPage is serving, if one is served
  caller        \* the state of a parent that keeps the list it is told, if one does

vars == <<cfg, files, nextFiles, dirty, errors, adoptQ, alive,
          nextHandle, revokedUrls, revokedAgain, last, surface, ui, supplied,
          page, caller>>

\* the hook used on its own, and a step that is no event of a FileInput
NoSurface ==
  [variant |-> "none", hasChildren |-> FALSE, imageCover |-> FALSE,
   preventOpenFileDialog |-> FALSE]
NoEvent == [event |-> "none", row |-> 0, opened |-> FALSE]

\* no MealPage request, and a parent that stores nothing
NoPage == [pc |-> "none"]
NoCaller == [controlled |-> FALSE]

Step(op, selectedFiles, index, changed, rejected, revoked) ==
  [op |-> op, selectedFiles |-> selectedFiles, index |-> index,
   changed |-> changed, rejected |-> rejected, revoked |-> revoked]

\* URL.revokeObjectURL for each URL of the sequence `urls`
Revoke(urls) ==
  LET now == {urls[i] : i \in 1..Len(urls)}
      twice == {urls[i] : i \in {j \in 1..Len(urls) : \E k \in 1..(j - 1) : urls[k] = urls[j]}}
  IN  /\ revokedUrls' = revokedUrls \cup now
      /\ revokedAgain' = revokedAgain \cup (revokedUrls \cap now) \cup twice

Init ==
  /\ cfg \in Configs
  /\ files = << >>
  /\ nextFiles = << >>
  /\ dirty = FALSE
  /\ errors = << >>
  /\ \E cf \in {Undefined} \cup {Defined(l) : l \in CallerLists} :
        adoptQ = currentFilesEffect(<< >>, cf)
  /\ alive = TRUE
  /\ nextHandle = 1
  /\ revokedUrls = {}
  /\ revokedAgain = {}
  /\ last = Step("mount", << >>, 0, << >>, << >>, << >>)
  /\ surface = NoSurface
  /\ ui = NoEvent
  /\ supplied = Undefined
  /\ page = NoPage
  /\ caller = NoCaller

(***************************************************************************)
(* handleFiles.  It and removeFile are called from event handlers, which   *)
(* are tasks of their own: a pending continuation of initializeFiles, a    *)
(* microtask, runs before them.                                            *)
(***************************************************************************)
\* `file.error = 'Exceeded the maximum number of allowed files.'` for each
annotate(acceptedFiles) ==
  [i \in 1..Len(acceptedFiles) |-> [acceptedFiles[i] EXCEPT !.error = exceededError]]

\* handleFiles without the max-files message of the count-limit path
handleFilesOnSilentLimit(v, g, c) ==
  IF Len(v.acceptedFiles) > 0
  THEN IF ~g.isNull
       THEN [setFiles |-> TRUE, newFiles |-> g.newFiles,
             errors |-> v.errorMessages,
             changed |-> << g.newFiles >>,
             rejected |-> IF Len(v.rejectedFiles) > 0 /\ c.hasRejected
                          THEN << v.rejectedFiles >> ELSE << >>,
             revoked |-> g.revoked, nextHandle |-> v.nextHandle]
       ELSE [setFiles |-> FALSE, newFiles |-> << >>,
             errors |-> v.errorMessages,
             changed |-> << >>,
             rejected |-> IF c.hasRejected
                          THEN << annotate(v.acceptedFiles) >> ELSE << >>,
             revoked |-> g.revoked, nextHandle |-> v.nextHandle]
  ELSE [setFiles |-> FALSE, newFiles |-> << >>,
        errors |-> v.errorMessages,
        changed |-> << >>,
        rejected |-> IF Len(v.rejectedFiles) > 0 /\ c.hasRejected
                     THEN << v.rejectedFiles >> ELSE << >>,
        revoked |-> << >>, nextHandle |-> v.nextHandle]

\* handleFiles calling getNewFiles whether or not anything was accepted
handleFilesOnUnconditional(v, g, c) ==
  IF ~g.isNull
  THEN [setFiles |-> TRUE, newFiles |-> g.newFiles,
        errors |-> v.errorMessages,
        changed |-> << g.newFiles >>,
        rejected |-> IF Len(v.rejectedFiles) > 0 /\ c.hasRejected
                     THEN << v.rejectedFiles >> ELSE << >>,
        revoked |-> g.revoked, nextHandle |-> v.nextHandle]
  ELSE [setFiles |-> FALSE, newFiles |-> << >>,
        errors |-> v.errorMessages \o << maxFilesError(c.maxFiles) >>,
        changed |-> << >>,
        rejected |-> IF c.hasRejected
                     THEN << annotate(v.acceptedFiles) >> ELSE << >>,
        revoked |-> g.revoked, nextHandle |-> v.nextHandle]

\* handleFiles after validateSelectedFiles returned v and, if anything was
\* accepted, getNewFiles returned g
handleFilesOn(v, g, c) ==
  IF Len(v.acceptedFiles) > 0
  THEN IF ~g.isNull
       THEN [setFiles |-> TRUE, newFiles |-> g.newFiles,
             errors |-> v.errorMessages,
             changed |-> << g.newFiles >>,
             rejected |-> IF Len(v.rejectedFiles) > 0 /\ c.hasRejected
                          THEN << v.rejectedFiles >> ELSE << >>,
             revoked |-> g.revoked, nextHandle |-> v.nextHandle]
       ELSE [setFiles |-> FALSE, newFiles |-> << >>,
             errors |-> v.errorMessages \o << maxFilesError(c.maxFiles) >>,
             changed |-> << >>,
             rejected |-> IF c.hasRejected
                          THEN << annotate(v.acceptedFiles) >> ELSE << >>,
             revoked |-> g.revoked, nextHandle |-> v.nextHandle]
  ELSE [setFiles |-> FALSE, newFiles |-> << >>,
        errors |-> v.errorMessages,
        changed |-> << >>,
        rejected |-> IF Len(v.rejectedFiles) > 0 /\ c.hasRejected
                     THEN << v.rejectedFiles >> ELSE << >>,
        revoked |-> << >>, nextHandle |-> v.nextHandle]

handleFilesValidated(closedFiles, v, c) ==
  handleFilesOn(v, getNewFiles(closedFiles, v.acceptedFiles, c.maxFiles), c)

\* what one handleFiles call does, from the `files` it closes over
handleFilesResult(closedFiles, selectedFiles, c, handle) ==
  handleFilesValidated(closedFiles,
    validateSelectedFiles(selectedFiles, c.maxSize, c.acceptedType, handle), c)

\* a call of handleFiles, whatever the caller does with onFilesChanged
handleFilesCall(selectedFiles) ==
  /\ alive
  /\ adoptQ = << >>
  /\ \E r \in {handleFilesResult(files, selectedFiles, cfg, nextHandle)} :
      /\ r.nextHandle <= MaxHandles + 1
      /\ errors' = r.errors
      /\ nextFiles' = IF r.setFiles THEN r.newFiles ELSE nextFiles
      /\ dirty' = (dirty \/ r.setFiles)
      /\ nextHandle' = r.nextHandle
      /\ Revoke(r.revoked)
      /\ last' = Step("handleFiles", selectedFiles, 0, r.changed, r.rejected,
                      r.revoked)
      /\ ui' = NoEvent
      /\ UNCHANGED <<cfg, files, adoptQ, alive, surface, supplied, page>>

handleFiles(selectedFiles) ==
  /\ handleFilesCall(selectedFiles)
  /\ UNCHANGED caller

(***************************************************************************)
(* removeFile                                                              *)
(***************************************************************************)
removeFileResult(closedFiles, index) ==
  LET inRange == index >= 0 /\ index < Len(closedFiles)
      newFiles == filterIndex(closedFiles, index)
  IN  [newFiles |-> newFiles,
       changed |-> << newFiles >>,
       revoked |-> IF inRange /\ hasPreview(closedFiles[index + 1])
                   THEN << closedFiles[index + 1].preview >> ELSE << >>]

\* a call of removeFile, whoever makes it
removeFileCall(index) ==
  /\ alive
  /\ adoptQ = << >>
  /\ \E r \in {removeFileResult(files, index)} :
      /\ nextFiles' = r.newFiles
      /\ dirty' = TRUE
      /\ Revoke(r.revoked)
      /\ last' = Step("removeFile", << >>, index, r.changed, << >>, r.revoked)
      /\ UNCHANGED <<cfg, files, errors, adoptQ, alive, nextHandle, surface, supplied,
                     page>>

removeFile(index) ==
  /\ removeFileCall(index)
  /\ ui' = NoEvent
  /\ UNCHANGED caller

(***************************************************************************)
(* Rendering and effects                                                   *)
(***************************************************************************)
\* the cleanup of the effect on [files], run when a render commits a list
\* that is not the one the effect was created for
filesEffectCleanup(closedFiles, isDirty) ==
  IF isDirty THEN revokePreviews(closedFiles) ELSE << >>

\* a re-render caused by setFiles
Render ==
  LET revoked == filesEffectCleanup(files, dirty)
  IN  /\ alive
      /\ dirty
      /\ files' = nextFiles
      /\ dirty' = FALSE
      /\ Revoke(revoked)
      /\ last' = Step("render", << >>, 0, << >>, << >>, revoked)
      /\ ui' = NoEvent
      /\ UNCHANGED <<cfg, nextFiles, errors, adoptQ, alive,
                     nextHandle, surface, supplied,
                     page, caller>>

\* the parent renders the hook with another currentFiles: a render (which
\* also commits a pending setFiles), then the effect on [currentFiles],
\* which starts initializeFiles unless currentFiles is undefined
PropChangeCall(cf, maxPending) ==
  LET revoked == filesEffectCleanup(files, dirty)
  IN  /\ alive
      /\ Len(adoptQ) < maxPending
      /\ adoptQ' = currentFilesEffect(adoptQ, cf)
      /\ files' = IF dirty THEN nextFiles ELSE files
      /\ dirty' = FALSE
      /\ Revoke(revoked)
      /\ last' = Step("propChange", << >>, 0, << >>, << >>, revoked)
      /\ ui' = NoEvent
      /\ UNCHANGED <<cfg, nextFiles, errors, alive, nextHandle, surface, page>>

\* a parent that renders once per task: the microtasks of an earlier
\* initializeFiles call have run before the effect runs again
PropChange(cf) ==
  /\ adoptQ = << >>
  /\ PropChangeCall(cf, MaxRace)
  /\ UNCHANGED <<supplied, caller>>

\* the continuation of initializeFiles after `await Promise.all`: setFiles
\* (ignored once unmounted) and onFilesChanged with the initialized list
AdoptCall ==
  /\ adoptQ # << >>
  /\ \E queue \in {upToContinuation(adoptQ)} :
      LET list == initializedFiles(Head(queue).list)
      IN
      /\ adoptQ' = Tail(queue)
      /\ nextFiles' = IF alive THEN list ELSE nextFiles
      /\ dirty' = (dirty \/ alive)
      /\ last' = Step("adopt", << >>, 0, << list >>, << >>, << >>)
      /\ ui' = NoEvent
      /\ UNCHANGED <<cfg, files, errors, alive, nextHandle, revokedUrls,
                     revokedAgain, surface, supplied, page>>

Adopt ==
  /\ AdoptCall
  /\ UNCHANGED caller

\* teardown: the cleanup of the effect on [files] of the last render
Unmount ==
  LET revoked == revokePreviews(files)
  IN  /\ alive
      /\ alive' = FALSE
      /\ Revoke(revoked)
      /\ last' = Step("unmount", << >>, 0, << >>, << >>, revoked)
      /\ ui' = NoEvent
      /\ UNCHANGED <<cfg, files, nextFiles, dirty, errors, adoptQ,
                     nextHandle, surface, supplied,
                     page, caller>>

Next ==
  \/ \E selectedFiles \in Batches(cfg.acceptedType) : handleFiles(selectedFiles)
  \/ \E index \in 0..MaxMaxFiles : removeFile(index)
  \/ Render
  \/ \E cf \in {Undefined} \cup {Defined(l) : l \in CallerLists} : PropChange(cf)
  \/ Adopt
  \/ Unmount

Spec == Init /\ [][Next]_vars

(***************************************************************************)
(* FileInput, the component that renders the selection and wires the       *)
(* events of the page to the hook.  The repository holds two of them.      *)
(***************************************************************************)
Variants == {"part_003", "part_004"}

\* the props children, previewMode (ImageCover or Default) and
\* preventOpenFileDialog; the cover render clones children, so a caller
\* that asks for ImageCover supplies children
Surfaces ==
  {s \in [variant : Variants, hasChildren : BOOLEAN, imageCover : BOOLEAN,
          preventOpenFileDialog : BOOLEAN] : s.imageCover => s.hasChildren}

\* previewMode === ImageCover && acceptedType === Image && files[0]?.preview
isCoverImage(s, c, fileList) ==
  /\ s.imageCover
  /\ c.acceptedType = FileTypeImage
  /\ Len(fileList) > 0
  /\ hasPreview(fileList[1])

\* which of the three return statements renders
renderState(s, c, fileList) ==
  IF s.hasChildren /\ Len(fileList) = 0
  THEN "children"
  ELSE IF isCoverImage(s, c, fileList) THEN "cover" ELSE "default"

\* the render holds the <input>, so that inputRef.current is set: always
\* in the children and cover renders; in the default render under
\* `!files.length` (part_004) or under `!files` (part_003), and an array
\* is never falsy
inputMounted(s, c, fileList) ==
  IF renderState(s, c, fileList) \in {"children", "cover"}
  THEN TRUE
  ELSE IF s.variant = "part_004" THEN Len(fileList) = 0 ELSE FALSE

\* the default render lists one row per file
rowsListed(s, c, fileList) ==
  renderState(s, c, fileList) = "default" /\ Len(fileList) > 0

\* openFileDialog: the platform dialog opens if inputRef.current is set
openFileDialog(mounted) == mounted

\* handleClick, the onClick of the root element
handleClick(s, mounted) ==
  IF s.preventOpenFileDialog THEN FALSE ELSE openFileDialog(mounted)

\* the onClick of the remove affordance of a row calls
\* event.stopPropagation(): the click does not reach the root element
rowClickBubbles(s) == FALSE

\* the argument the remove affordance of the row at `row` hands removeFile
removeArgument(s, row) == IF s.variant = "part_003" THEN 0 ELSE row

\* a click on the root element
ClickTarget ==
  /\ alive
  /\ ui' = [event |-> "click", row |-> 0,
            opened |-> handleClick(surface, inputMounted(surface, cfg, files))]
  /\ last' = Step("click", << >>, 0, << >>, << >>, << >>)
  /\ UNCHANGED <<cfg, files, nextFiles, dirty, errors, adoptQ, alive,
                 nextHandle, revokedUrls, revokedAgain, surface, supplied,
                     page, caller>>

\* a click on the remove affordance of the row at position `row`
ClickRemove(row) ==
  /\ rowsListed(surface, cfg, files)
  /\ row < Len(files)
  /\ removeFileCall(removeArgument(surface, row))
  /\ ui' = [event |-> "remove", row |-> row,
            opened |-> (rowClickBubbles(surface)
                        /\ handleClick(surface, inputMounted(surface, cfg, files)))]
  /\ UNCHANGED caller

\* a FileInput with room for MaxMaxFiles files, without currentFiles
SurfaceInit ==
  /\ cfg \in {c \in Configs : c.maxFiles = MaxMaxFiles /\ c.hasRejected}
  /\ surface \in Surfaces
  /\ files = << >>
  /\ nextFiles = << >>
  /\ dirty = FALSE
  /\ errors = << >>
  /\ adoptQ = << >>
  /\ alive = TRUE
  /\ nextHandle = 1
  /\ revokedUrls = {}
  /\ revokedAgain = {}
  /\ last = Step("mount", << >>, 0, << >>, << >>, << >>)
  /\ ui = NoEvent
  /\ supplied = Undefined
  /\ page = NoPage
  /\ caller = NoCaller

\* onDrop and onInputChange hand their files to handleFiles
SurfaceNext ==
  \/ \E selectedFiles \in Batches(cfg.acceptedType) : handleFiles(selectedFiles)
  \/ \E row \in 0..(MaxMaxFiles - 1) : ClickRemove(row)
  \/ ClickTarget
  \/ Render

SurfaceSpec == SurfaceInit /\ [][SurfaceNext]_vars

(***************************************************************************)
(* The hook under a parent whose changes of currentFiles are followed:     *)
(* `supplied` is the currentFiles of the latest render.  A parent that     *)
(* renders twice in one task (flushSync, a state change in a layout        *)
(* effect, or inside onFilesChanged) has the effect run again while the    *)
(* microtasks of the earlier initializeFiles call are still queued.        *)
(***************************************************************************)
\* the lists such a parent supplies: those of CallerLists and the empty one
SuppliedLists == CallerLists \cup {<< >>}

Supply(cf) ==
  /\ PropChangeCall(cf, MaxRace)
  /\ supplied' = cf
  /\ UNCHANGED caller

\* a text selection with room for MaxMaxFiles files
AdoptionInit ==
  /\ cfg \in {c \in Configs : /\ c.maxFiles = MaxMaxFiles
                              /\ c.acceptedType = FileTypeText
                              /\ c.hasRejected}
  /\ supplied \in {Undefined} \cup {Defined(l) : l \in SuppliedLists}
  /\ adoptQ = currentFilesEffect(<< >>, supplied)
  /\ page = NoPage
  /\ caller = NoCaller
  /\ files = << >>
  /\ nextFiles = << >>
  /\ dirty = FALSE
  /\ errors = << >>
  /\ alive = TRUE
  /\ nextHandle = 1
  /\ revokedUrls = {}
  /\ revokedAgain = {}
  /\ last = Step("mount", << >>, 0, << >>, << >>, << >>)
  /\ surface = NoSurface
  /\ ui = NoEvent

AdoptionNext ==
  \/ \E cf \in {Undefined} \cup {Defined(l) : l \in SuppliedLists} : Supply(cf)
  \/ Adopt
  \/ Render
  \/ \E selectedFiles \in Batches(cfg.acceptedType) : handleFiles(selectedFiles)
  \/ \E index \in 0..MaxMaxFiles : removeFile(index)
  \/ Unmount

AdoptionSpec == AdoptionInit /\ [][AdoptionNext]_vars

(***************************************************************************)
(* The hook on files of other mime types: File.type is whatever string     *)
(* the platform reports.                                                   *)
(***************************************************************************)
MimeCandidates ==
  { File("a.png", 1024, "image/png"),
    File("b.img", 1024, "image/x-text"),
    File("c.txt", 1024, "text/plain"),
    File("e.woff", 1024, "font/woff") }

MimeBatches == UNION {[1..n -> MimeCandidates] : n \in 1..MaxBatch}

MimeInit ==
  /\ cfg \in {c \in Configs : c.maxFiles = MaxMaxFiles /\ c.hasRejected}
  /\ files = << >>
  /\ nextFiles = << >>
  /\ dirty = FALSE
  /\ errors = << >>
  /\ adoptQ = << >>
  /\ alive = TRUE
  /\ nextHandle = 1
  /\ revokedUrls = {}
  /\ revokedAgain = {}
  /\ last = Step("mount", << >>, 0, << >>, << >>, << >>)
  /\ surface = NoSurface
  /\ ui = NoEvent
  /\ supplied = Undefined
  /\ page = NoPage
  /\ caller = NoCaller

MimeNext ==
  \/ \E selectedFiles \in MimeBatches : handleFiles(selectedFiles)
  \/ \E index \in 0..MaxMaxFiles : removeFile(index)
  \/ Render

MimeSpec == MimeInit /\ [][MimeNext]_vars

(***************************************************************************)
(* The hook under other values of maxSize: 1.5 MiB, a little above         *)
(* 1.55 MiB, the default, 2^30 - 1, 2^30, 1.5 GiB and a little above       *)
(* 1.55 GiB; with a small image and one of 2^31 - 1 bytes as candidates.   *)
(***************************************************************************)
SizeLimits ==
  {1572864, 1625293, DefaultMaxSize, GiB - 1, GiB, 1610612736, 1664299828}

UnitCandidates ==
  { File("a.png", 1024, "image/png"),
    File("h.png", 2147483647, "image/png") }

UnitBatches == UNION {[1..n -> UnitCandidates] : n \in 1..MaxBatch}

UnitInit ==
  /\ cfg \in [maxFiles : {1}, maxSize : SizeLimits,
              acceptedType : {FileTypeImage}, hasRejected : {TRUE}]
  /\ files = << >>
  /\ nextFiles = << >>
  /\ dirty = FALSE
  /\ errors = << >>
  /\ adoptQ = << >>
  /\ alive = TRUE
  /\ nextHandle = 1
  /\ revokedUrls = {}
  /\ revokedAgain = {}
  /\ last = Step("mount", << >>, 0, << >>, << >>, << >>)
  /\ surface = NoSurface
  /\ ui = NoEvent
  /\ supplied = Undefined
  /\ page = NoPage
  /\ caller = NoCaller

UnitNext ==
  \/ \E selectedFiles \in UnitBatches : handleFiles(selectedFiles)
  \/ \E index \in 0..1 : removeFile(index)
  \/ Render

UnitSpec == UnitInit /\ [][UnitNext]_vars

(***************************************************************************)
(* The hook under a parent that keeps the selection itself:                *)
(*   const [list, setList] = useState(...)                                 *)
(*   useFileHandler({ currentFiles: list, onFilesChanged: setList, ... })  *)
(* Every list the hook reports is a new array (a slice or spread in        *)
(* getNewFiles, the result of filter, the result of Promise.all), so       *)
(* every setList is a state change of the parent: it renders again, and    *)
(* the effect on [currentFiles] sees another array.                        *)
(***************************************************************************)
Controlling(list) ==
  [controlled |-> TRUE, list |-> list, pending |-> FALSE, ops |-> 0]

\* onFilesChanged = setList, called once for each entry of `changed`
setList(c, changed) ==
  IF changed = << >> THEN c
  ELSE [c EXCEPT !.list = Defined(changed[Len(changed)]), !.pending = TRUE]

userOp(c) == [c EXCEPT !.ops = @ + 1]

ControlledHandleFiles(selectedFiles) ==
  /\ caller.ops < MaxOps
  /\ handleFilesCall(selectedFiles)
  /\ caller' = setList(userOp(caller), last'.changed)

ControlledRemoveFile(index) ==
  /\ caller.ops < MaxOps
  /\ removeFileCall(index)
  /\ ui' = NoEvent
  /\ caller' = setList(userOp(caller), last'.changed)

\* the continuation of initializeFiles: setFiles and setList
ControlledAdopt ==
  /\ AdoptCall
  /\ caller' = setList(caller, last'.changed)

\* the render the state changes cause: it commits the hook's setFiles and
\* the parent's setList, and the effect on [currentFiles] runs if setList
\* was called
ControlledRender ==
  /\ dirty \/ caller.pending
  /\ PropChangeCall(IF caller.pending THEN caller.list ELSE Undefined, MaxRace)
  /\ caller' = [caller EXCEPT !.pending = FALSE]
  /\ UNCHANGED supplied

\* the parent starts with no list or with the empty one
ControlledInit ==
  /\ cfg \in {c \in Configs : c.acceptedType = FileTypeImage}
  /\ files = << >>
  /\ nextFiles = << >>
  /\ dirty = FALSE
  /\ errors = << >>
  /\ caller \in {Controlling(Undefined), Controlling(Defined(<< >>))}
  /\ adoptQ = currentFilesEffect(<< >>, caller.list)
  /\ alive = TRUE
  /\ nextHandle = 1
  /\ revokedUrls = {}
  /\ revokedAgain = {}
  /\ last = Step("mount", << >>, 0, << >>, << >>, << >>)
  /\ surface = NoSurface
  /\ ui = NoEvent
  /\ supplied = Undefined
  /\ page = NoPage

ControlledNext ==
  \/ \E selectedFiles \in Batches(cfg.acceptedType) : ControlledHandleFiles(selectedFiles)
  \/ \E index \in 0..MaxMaxFiles : ControlledRemoveFile(index)
  \/ ControlledAdopt
  \/ ControlledRender

\* microtasks run, and React renders a state change it was told of
ControlledSpec ==
  /\ ControlledInit
  /\ [][ControlledNext]_vars
  /\ WF_vars(ControlledAdopt)
  /\ WF_vars(ControlledRender)

(***************************************************************************)
(* MealPage, the server component of one meal, and getMeal, the lookup it  *)
(* awaits.  Strings are sequences of characters.                           *)
(***************************************************************************)
Slugs == {"pizza", "curry", "ramen"}

\* the instructions column of a row: one line, and two lines with blanks
\* around the second
InstructionTexts ==
  { << "a" >>, << "a", "\n", " ", "b", " " >> }

\* the meals table: the rows by slug, at most one per slug
Undefinedness == [defined |-> FALSE]
Row(slug, instructions) == [defined |-> TRUE, slug |-> slug, instructions |-> instructions]
MealTables ==
  UNION { [present -> InstructionTexts] : present \in SUBSET Slugs }

\* stmt.get(slug): the row, or undefined when no row matches
getMeal(meals, slug) ==
  IF slug \in DOMAIN meals THEN Row(slug, meals[slug]) ELSE Undefinedness

\* String.prototype.split('\n')
RECURSIVE splitLines(_, _)
splitLines(str, line) ==
  IF str = << >> THEN << line >>
  ELSE IF Head(str) = "\n" THEN << line >> \o splitLines(Tail(str), << >>)
  ELSE splitLines(Tail(str), Append(line, Head(str)))

\* String.prototype.trim()
RECURSIVE trim(_)
trim(str) ==
  IF str = << >> THEN str
  ELSE IF Head(str) = " " THEN trim(Tail(str))
  ELSE IF str[Len(str)] = " " THEN trim(SubSeq(str, 1, Len(str) - 1))
  ELSE str

\* meal.instructions.split('\n').map((instruction) => instruction.trim())
parsedIntructions(meal) ==
  LET lines == splitLines(meal.instructions, << >>)
  IN  [i \in 1..Len(lines) |-> trim(lines[i])]

\* the variables of the hook and its users, which MealPage does not touch
hookVars == <<cfg, files, nextFiles, dirty, errors, adoptQ, alive,
              nextHandle, revokedUrls, revokedAgain, last, surface, ui,
              supplied, caller>>

Request(meals, slug) ==
  [pc |-> "params", meals |-> meals, slug |-> slug, meal |-> Undefinedness,
   parsed |-> << >>, response |-> "pending"]

\* const slug = (await params).slug
AwaitParams ==
  /\ page.pc = "params"
  /\ page' = [page EXCEPT !.pc = "getMeal"]
  /\ UNCHANGED hookVars

\* const meal = await getMeal(slug)
AwaitGetMeal ==
  /\ page.pc = "getMeal"
  /\ page' = [page EXCEPT !.pc = "instructions", !.meal = getMeal(page.meals, page.slug)]
  /\ UNCHANGED hookVars

\* const parsedIntructions = meal.instructions.split(...).map(...): reading
\* a property of undefined throws a TypeError, which ends the component
ParseInstructions ==
  /\ page.pc = "instructions"
  /\ page' = IF page.meal.defined
             THEN [page EXCEPT !.pc = "check", !.parsed = parsedIntructions(page.meal)]
             ELSE [page EXCEPT !.pc = "done", !.response = "TypeError"]
  /\ UNCHANGED hookVars

\* if (!meal) notFound(): notFound throws the error the router answers
\* with the not-found response
CheckMeal ==
  /\ page.pc = "check"
  /\ page' = IF ~page.meal.defined
             THEN [page EXCEPT !.pc = "done", !.response = "notFound"]
             ELSE [page EXCEPT !.pc = "return"]
  /\ UNCHANGED hookVars

\* return <main>...</main>
ReturnMeal ==
  /\ page.pc = "return"
  /\ page' = [page EXCEPT !.pc = "done", !.response = "rendered"]
  /\ UNCHANGED hookVars

MealInit ==
  /\ cfg \in {c \in Configs : c.maxFiles = 1 /\ c.acceptedType = FileTypeImage}
  /\ files = << >>
  /\ nextFiles = << >>
  /\ dirty = FALSE
  /\ errors = << >>
  /\ adoptQ = << >>
  /\ alive = TRUE
  /\ nextHandle = 1
  /\ revokedUrls = {}
  /\ revokedAgain = {}
  /\ last = Step("mount", << >>, 0, << >>, << >>, << >>)
  /\ surface = NoSurface
  /\ ui = NoEvent
  /\ supplied = Undefined
  /\ caller = NoCaller
  /\ \E meals \in MealTables, slug \in Slugs : page = Request(meals, slug)

MealNext ==
  \/ AwaitParams
  \/ AwaitGetMeal
  \/ ParseInstructions
  \/ CheckMeal
  \/ ReturnMeal

MealSpec == MealInit /\ [][MealNext]_vars

(***************************************************************************)
(* Properties.                                                             *)
(***************************************************************************)
\* the File an entry was made from
AsFile(e) == File(e.name, e.size, e.type)

\* the candidates of a batch that pass validation, in candidate order
isValid(file) == validateFile(file, cfg.maxSize, cfg.acceptedType) = NoError
ValidCandidates(batch) == SelectSeq(batch, isValid)

\* the object URLs the entries of a list carry
Previews(list) == {list[i].preview : i \in {j \in 1..Len(list) : hasPreview(list[j])}}

\* the object URLs createObjectURL has handed out
Allocated == 1..(nextHandle - 1)

\* C1: no object URL is revoked more than once.
C1_NoDoubleRevoke == revokedAgain = {}

\* C2: when a render replaces the files list, the object URLs it revokes
\* are not carried by any entry of the new list.
C2_RevokedOnlyIfDropped ==
  last.op \in {"render", "propChange"} =>
    \A i \in 1..Len(last.revoked) : last.revoked[i] \notin Previews(files)

\* C3: once the hook is torn down (with every setFiles rendered before),
\* every object URL that was handed out has been revoked.
C3_NoLeakAfterTeardown ==
  (~alive /\ ~dirty) => Allocated \subseteq revokedUrls

\* C4: files never has more than maxFiles entries.
C4_FilesWithinMaxFiles == Len(files) <= cfg.maxFiles

\* C5: no entry of files carries an error.
C5_NoErrorInFiles == \A i \in 1..Len(files) : files[i].error = NoError

\* C6: removeFile with an index beyond the list calls neither
\* onFilesChanged nor revokeObjectURL.
C6_RemoveOutOfRangeIsNoOp ==
  (last.op = "removeFile" /\ last.index >= Len(files)) =>
    (last.changed = << >> /\ last.revoked = << >>)

\* the entries of the onFilesRejected calls of the last step
RejectedEntries(step) ==
  UNION {{step.rejected[n][i] : i \in 1..Len(step.rejected[n])} : n \in 1..Len(step.rejected)}

\* C7: with maxFiles > 1 and no room, a handleFiles call with at least one
\* valid candidate leaves files alone, does not call onFilesChanged, and
\* calls onFilesRejected, if supplied, once, with exactly the valid
\* candidates in order, each carrying an error.
C7_NoRoomRejectsBatch ==
  [][ (last'.op = "handleFiles" /\ cfg.maxFiles > 1 /\ Len(files) >= cfg.maxFiles)
      =>
      \A valid \in {ValidCandidates(last'.selectedFiles)} :
        valid # << >> =>
          /\ files' = files /\ nextFiles' = nextFiles /\ dirty' = dirty
          /\ last'.changed = << >>
          /\ ~cfg.hasRejected => last'.rejected = << >>
          /\ cfg.hasRejected =>
               /\ Len(last'.rejected) = 1
               /\ Len(last'.rejected[1]) = Len(valid)
               /\ \A i \in 1..Len(valid) :
                    /\ AsFile(last'.rejected[1][i]) = valid[i]
                    /\ last'.rejected[1][i].error # NoError ]_vars

C7_Witness ==
  /\ last.op = "handleFiles"
  /\ cfg.maxFiles > 1
  /\ Len(files) >= cfg.maxFiles
  /\ cfg.hasRejected
  /\ Len(last.rejected) = 1
  /\ Len(last.rejected[1]) = Len(ValidCandidates(last.selectedFiles))
  /\ Len(last.rejected[1]) < Len(last.selectedFiles)
  /\ last.rejected[1][1].error = exceededError
  /\ last.changed = << >>

\* C8: with maxFiles > 1 and room = maxFiles - files.length > 0, a
\* handleFiles call with k >= 1 valid candidates sets files to the previous
\* list followed by the first min(k, room) valid candidates in order, calls
\* onFilesChanged once with that list, and hands no valid candidate to
\* onFilesRejected.
C8_AppendsUpToRoom ==
  [][ (last'.op = "handleFiles" /\ cfg.maxFiles > 1 /\ Len(files) < cfg.maxFiles)
      =>
      \A valid \in {ValidCandidates(last'.selectedFiles)} :
        valid # << >> =>
          LET room == cfg.maxFiles - Len(files)
              n == IF Len(valid) < room THEN Len(valid) ELSE room
          IN  /\ dirty'
              /\ Len(nextFiles') = Len(files) + n
              /\ \A i \in 1..Len(files) : nextFiles'[i] = files[i]
              /\ \A i \in 1..n :
                   /\ AsFile(nextFiles'[Len(files) + i]) = valid[i]
                   /\ nextFiles'[Len(files) + i].error = NoError
              /\ last'.changed = << nextFiles' >>
              /\ \A e \in RejectedEntries(last') : ~isValid(AsFile(e)) ]_vars

C8_Witness ==
  /\ last.op = "handleFiles"
  /\ cfg.maxFiles > 1
  /\ cfg.hasRejected
  /\ Len(files) >= 1
  /\ Len(files) < cfg.maxFiles
  /\ Len(ValidCandidates(last.selectedFiles)) > cfg.maxFiles - Len(files)
  /\ Len(nextFiles) = cfg.maxFiles
  /\ last.changed = << nextFiles >>
  /\ last.rejected = << >>

\* C9: with maxFiles = 1, a handleFiles call with a valid candidate sets
\* files to the first valid candidate alone and calls onFilesChanged with
\* it, and the object URL of the file selected before is revoked in that
\* call; no handleFiles call reports the max-files error.
C9_ReplaceOne ==
  [][ (last'.op = "handleFiles" /\ cfg.maxFiles = 1)
      =>
      \A valid \in {ValidCandidates(last'.selectedFiles)} :
          /\ \A i \in 1..Len(errors') : errors'[i].kind # "maxFiles"
          /\ \A e \in RejectedEntries(last') : e.error # exceededError
          /\ valid # << >> =>
               /\ dirty'
               /\ Len(nextFiles') = 1
               /\ AsFile(nextFiles'[1]) = valid[1]
               /\ nextFiles'[1].error = NoError
               /\ last'.changed = << nextFiles' >>
               /\ \A h \in Previews(files) :
                    /\ \E i \in 1..Len(last'.revoked) : last'.revoked[i] = h
                    /\ h \in revokedUrls' ]_vars

C9_Witness ==
  /\ last.op = "handleFiles"
  /\ cfg.maxFiles = 1
  /\ Len(files) = 1
  /\ Previews(files) # {}
  /\ \A h \in Previews(files) : \E i \in 1..Len(last.revoked) : last.revoked[i] = h
  /\ Len(nextFiles) = 1
  /\ Previews(nextFiles) # {}
  /\ Previews(nextFiles) \cap Previews(files) = {}

\* the candidates of a batch with size > maxSize or a category other than
\* acceptedType, and the message the claim gives each
isBad(f) == f.size > cfg.maxSize \/ mapTypeOf[f.type] # cfg.acceptedType
expectedMessage(f) ==
  IF f.size > cfg.maxSize
  THEN sizeError(f.name,
                 bytesToUnit(cfg.maxSize, IF cfg.maxSize >= GiB THEN "GB" ELSE "MB"),
                 IF cfg.maxSize >= GiB THEN "GB" ELSE "MB")
  ELSE typeError(f.type)

\* C10: after a handleFiles call, errors holds, in candidate order, one
\* message for each candidate with size > maxSize or a category other than
\* acceptedType, and none for any other candidate (then, at most, the
\* max-files message); the message of an oversized candidate is the size
\* message, with its name and maxSize in the unit of the unit rule, also
\* when its category is wrong too.
C10_IndependentClassification ==
  [][ last'.op = "handleFiles"
      =>
      \A invalid \in {SelectSeq(last'.selectedFiles, isBad)} :
          /\ Len(errors') \in {Len(invalid), Len(invalid) + 1}
          /\ \A i \in 1..Len(invalid) : errors'[i] = expectedMessage(invalid[i])
          /\ Len(errors') > Len(invalid) => errors'[Len(errors')].kind = "maxFiles" ]_vars

C10_Witness ==
  /\ last.op = "handleFiles"
  /\ Len(last.selectedFiles) >= 2
  /\ last.selectedFiles[1].size > cfg.maxSize
  /\ mapType(last.selectedFiles[1].type) # cfg.acceptedType
  /\ Len(errors) >= 2
  /\ errors[1].kind = "size"
  /\ errors[1].name = last.selectedFiles[1].name
  /\ errors[2].kind = "type"

\* the candidates of a batch that fail validation, in candidate order
InvalidCandidates(batch) == SelectSeq(batch, isBad)

\* C11: when onFilesRejected is supplied, a handleFiles call whose batch
\* has a candidate failing validation calls onFilesRejected with exactly
\* the failing candidates, in order, each with its validation message,
\* whatever happens to the valid candidates of the batch.
C11_ValidationRejectedReported ==
  [][ (last'.op = "handleFiles" /\ cfg.hasRejected)
      =>
      \A invalid \in {InvalidCandidates(last'.selectedFiles)} :
        invalid # << >> =>
          \E n \in 1..Len(last'.rejected) :
            /\ Len(last'.rejected[n]) = Len(invalid)
            /\ \A i \in 1..Len(invalid) :
                 /\ AsFile(last'.rejected[n][i]) = invalid[i]
                 /\ last'.rejected[n][i].error = expectedMessage(invalid[i]) ]_vars

\* the count-limit path of handleFiles: a valid candidate, maxFiles > 1,
\* and no room in the list the call closes over
countLimitPath(closedFiles, batch) ==
  /\ ValidCandidates(batch) # << >>
  /\ cfg.maxFiles > 1
  /\ Len(closedFiles) >= cfg.maxFiles

\* C12: after a handleFiles call, errors is exactly the validation
\* messages of the batch in candidate order, followed by the max-files
\* message if and only if the count-limit path was taken; nothing of the
\* errors held before the call is retained.
C12_ErrorsOfLastBatch ==
  [][ last'.op = "handleFiles"
      =>
      \A invalid \in {InvalidCandidates(last'.selectedFiles)} :
        errors' =
          [i \in 1..Len(invalid) |-> expectedMessage(invalid[i])]
          \o (IF countLimitPath(files, last'.selectedFiles)
              THEN << maxFilesError(cfg.maxFiles) >> ELSE << >>) ]_vars

C12_Witness ==
  /\ last.op = "handleFiles"
  /\ countLimitPath(files, last.selectedFiles)
  /\ InvalidCandidates(last.selectedFiles) # << >>
  /\ Len(errors) = Len(InvalidCandidates(last.selectedFiles)) + 1
  /\ errors[Len(errors)] = maxFilesError(cfg.maxFiles)
  /\ errors[1].kind \in {"size", "type"}

\* C13: removeFile(index) with 0 <= index < files.length revokes the object
\* URL of the entry at index, if it has one, and nothing else; sets files
\* to the list without that entry, the others in their order; and calls
\* onFilesChanged once with that list.
C13_RemoveInRange ==
  [][ (last'.op = "removeFile" /\ last'.index >= 0 /\ last'.index < Len(files))
      =>
      \A k \in {last'.index + 1} :
          /\ last'.revoked = IF hasPreview(files[k]) THEN << files[k].preview >> ELSE << >>
          /\ dirty'
          /\ Len(nextFiles') = Len(files) - 1
          /\ \A i \in 1..(k - 1) : nextFiles'[i] = files[i]
          /\ \A i \in k..(Len(files) - 1) : nextFiles'[i] = files[i + 1]
          /\ last'.changed = << nextFiles' >> ]_vars

C13_Witness ==
  /\ last.op = "removeFile"
  /\ Len(files) >= 2
  /\ last.index = 0
  /\ hasPreview(files[1])
  /\ last.revoked = << files[1].preview >>
  /\ nextFiles = << files[2] >>
  /\ files[1] # files[2]
  /\ last.changed = << nextFiles >>

\* C14: a click on the remove affordance of the row at position i calls
\* removeFile(i), so that the new list is the rendered one without the
\* entry of row i, and the click opens no file dialog.
C14_RemoveRowRemovesThatFile ==
  ui.event = "remove" =>
    /\ last.op = "removeFile"
    /\ last.index = ui.row
    /\ Len(nextFiles) = Len(files) - 1
    /\ \A i \in 1..ui.row : nextFiles[i] = files[i]
    /\ \A i \in (ui.row + 1)..(Len(files) - 1) : nextFiles[i] = files[i + 1]
    /\ ~ui.opened

\* C15: whatever the FileInput renders, a click on its root element opens
\* the file dialog if and only if preventOpenFileDialog is false.
C15_ClickOpensUnlessPrevented ==
  ui.event = "click" => (ui.opened <=> ~surface.preventOpenFileDialog)

\* C16: when the last pending adoption step has run, the list it set is
\* the (initialized) list of the currentFiles supplied last.
C16_LastSuppliedWins ==
  (last.op = "adopt" /\ alive /\ adoptQ = << >> /\ supplied.defined) =>
    nextFiles = initializedFiles(supplied.list)

\* the top-level type of a mime string: the characters before the "/"
topLevel(type) ==
  LET str == Chars[type]
      slash == {i \in 1..Len(str) : str[i] = "/"}
  IN  IF slash = {} THEN str ELSE SubSeq(str, 1, Min(slash) - 1)

\* the category the claim gives a mime string
categoryOfTopLevel(type) ==
  LET t == topLevel(type)
  IN  IF t = Chars["audio"] THEN FileTypeAudio
      ELSE IF t = Chars["video"] THEN FileTypeVideo
      ELSE IF t = Chars["text"] \/ t = Chars["application"] THEN FileTypeText
      ELSE FileTypeImage

\* C17: the category of a candidate is decided by the top-level type of
\* its mime string alone: audio, image and video map to their category,
\* text and application to Text, anything else to Image.
C17_TopLevelTypeDecides ==
  last.op = "handleFiles" =>
    \A i \in 1..Len(last.selectedFiles) :
      mapType(last.selectedFiles[i].type) = categoryOfTopLevel(last.selectedFiles[i].type)

\* C18: every entry of files that carries an object URL is of category
\* Image.
C18_PreviewOnlyOnImages ==
  \A i \in 1..Len(files) :
    hasPreview(files[i]) => mapType(files[i].type) = FileTypeImage

\* the size messages among the errors
SizeMessages == {errors[i] : i \in {j \in 1..Len(errors) : errors[j].kind = "size"}}

\* C19: the unit of a size message is "GB" if and only if maxSize is at
\* least 2^30, and "MB" otherwise.
C19_UnitOfMaxSize ==
  \A e \in SizeMessages :
    e.unit = IF cfg.maxSize >= 1073741824 THEN "GB" ELSE "MB"

C19_Witness ==
  /\ last.op = "handleFiles"
  /\ cfg.maxSize = 1073741824
  /\ \E e \in SizeMessages : e.unit = "GB" /\ e.name = "h.png"

\* n tenths is bytes / d rounded to one decimal, the upper one on a tie:
\* n*d - d/2 <= 10*bytes < n*d + d/2, compared in units of 1024 (d and d/2
\* are multiples of 1024), which stays inside 32-bit integers
isNearestTenth(n, bytes, d) ==
  LET t == 10 * (bytes \div 1024) + ((10 * (bytes % 1024)) \div 1024)
      k == d \div 1024
  IN  n * k - (k \div 2) <= t /\ t < n * k + (k \div 2)

C21_MissingMealIsNotFound ==
  (page.pc = "done" /\ ~(page.slug \in DOMAIN page.meals)) =>
    page.response = "notFound"

\* C22: a handleFiles call in which every candidate fails validation
\* leaves files as it was, calls neither setFiles nor onFilesChanged and
\* revokes no object URL, whatever maxFiles is (with maxFiles = 1 the
\* selection held before the call is still there).
C22_AllInvalidKeepsSelection ==
  [][ (last'.op = "handleFiles" /\ ValidCandidates(last'.selectedFiles) = << >>)
      =>
      /\ files' = files /\ nextFiles' = nextFiles /\ dirty' = dirty
      /\ last'.changed = << >>
      /\ last'.revoked = << >>
      /\ revokedUrls' = revokedUrls /\ revokedAgain' = revokedAgain ]_vars

C22_Witness ==
  /\ last.op = "handleFiles"
  /\ cfg.maxFiles = 1
  /\ last.selectedFiles # << >>
  /\ ValidCandidates(last.selectedFiles) = << >>
  /\ Len(files) = 1
  /\ hasPreview(files[1])
  /\ ~(files[1].preview \in revokedUrls)
  /\ nextFiles = files
  /\ ~dirty
  /\ last.changed = << >>
  /\ errors # << >>

\* nothing is pending anywhere, and the hook holds the list of its parent
Quiescent ==
  /\ adoptQ = << >>
  /\ ~dirty
  /\ ~caller.pending
  /\ caller.list.defined
  /\ files = caller.list.list

\* C23: under a parent that stores the list onFilesChanged reports and
\* supplies it back as currentFiles, a handleFiles or removeFile call that
\* changed the list is followed by finitely many adoptions and reports:
\* the hook and the parent come to rest, with files the parent's list.
C23_ControlledQuiesces ==
  (last.op \in {"handleFiles", "removeFile"} /\ last.changed # << >>) ~> Quiescent

\* C24: no update is lost between operations: a handleFiles or removeFile
\* call made while an earlier setFiles (of a handleFiles, a removeFile or
\* an adoption) has not been rendered computes the list it sets and
\* reports from the list that setFiles was given, not from the list of the
\* last render.
C24_NoLostUpdate ==
  [][ /\ last'.op = "handleFiles" =>
           \A r \in {handleFilesResult(nextFiles, last'.selectedFiles, cfg, nextHandle)} :
             last'.changed = r.changed
      /\ last'.op = "removeFile" =>
           last'.changed = removeFileResult(nextFiles, last'.index).changed ]_vars

====
